---- MODULE Spec2Model ----
(***************************************************************************)
(* ETS process monitor: the sys_probe library (crates/sys_probe/src/lib.rs) *)
(* and the interactive ets binary (crates/ets/src/main.rs).                 *)
(*                                                                          *)
(* Three specifications share the definitions of the library:               *)
(*   SpecProbe    the library driven through its public API by a caller,    *)
(*                with the full variety of accounting text;                 *)
(*   SpecBuilder  a ProcessBuilder driven by a caller, as in the unit test; *)
(*   Spec         the ets binary from main() to process exit.               *)
(*                                                                          *)
(* Text is a sequence of one-character strings.  Option<T> is a sequence:   *)
(* None is << >> and Some(v) is <<v>>.                                      *)
(***************************************************************************)
EXTENDS Integers, Sequences, FiniteSets, TLC

VARIABLES
    pc,         \* position of the program (see the actions)
    termMode,   \* terminal mode: "cooked" or "raw"
    result,     \* io::Result of App::run: "none", "ok" or "err"
    quantum,    \* SysProbe.quantum
    sys,        \* SysProbe.sys: the provider's process list after refresh_all
    procfs,     \* /proc/<pid>/stat as read by the last refresh, per pid read
    processes,  \* SysProbe.processes: pid -> Process
    items,      \* App.items
    filtered,   \* App.filtered
    filter,     \* App.filter
    selected,   \* App.table_state.selected()
    exit,       \* App.exit
    elapsed,    \* last_tick.elapsed(), in seconds, saturated at ElapsedCap
    event,      \* the event the current loop iteration got from poll/read
    repeated,   \* history: the last refresh saw the same provider data as the one before
    quantumFile, \* /proc/sys/kernel/sched_rr_timeslice_ms as set_quantum reads it
    lastTick,   \* history: what the deadline test of the last loop iteration did
    builder,    \* a ProcessBuilder under construction
    built       \* what ProcessBuilder::build returned

vars == <<pc, termMode, result, quantum, sys, procfs, processes, items,
          filtered, filter, selected, exit, elapsed, event, repeated,
          quantumFile, lastTick, builder, built>>

----------------------------------------------------------------------------
(* Bounds of the model *)

MaxRunTime == 1
MaxFilterLen == 2

(* Option<T> *)
None == << >>
Some(v) == <<v>>
IsNone(o) == o = << >>
IsSome(o) == o /= << >>
Unwrap(o) == o[1]

EmptyMap == [p \in {} |-> 0]

----------------------------------------------------------------------------
(* crates/sys_probe/src/lib.rs *)

NICE_COL == 18
PRIO_COL == 17
RT_PRIO_COL == 39

(* The token-count guard of Process::refresh: self.stat.len() > 15 *)
StatGuard == 15

(* A token of the accounting text is a string.  The tokens the model uses: *)
(* decimal texts of integers, with their values, and "x", no integer.       *)
IntTexts == {"0", "5", "20", "50", "100", "-20", "-51", "40000", "70000"}
IntValue(tok) ==
    CASE tok = "0" -> 0 [] tok = "5" -> 5 [] tok = "20" -> 20 [] tok = "50" -> 50
      [] tok = "100" -> 100 [] tok = "-20" -> -20 [] tok = "-51" -> -51
      [] tok = "40000" -> 40000 [] tok = "70000" -> 70000

(* str::parse::<i16>: Ok(v) as <<v>>, Err as << >> *)
ParseI16(tok) ==
    IF tok \in IntTexts /\ IntValue(tok) >= -32768 /\ IntValue(tok) <= 32767
    THEN Some(IntValue(tok)) ELSE None

(* str::parse::<u16> *)
ParseU16(tok) ==
    IF tok \in IntTexts /\ IntValue(tok) >= 0 /\ IntValue(tok) <= 65535
    THEN Some(IntValue(tok)) ELSE None

(* Result::unwrap_or(0) *)
UnwrapOr0(r) == IF IsSome(r) THEN Unwrap(r) ELSE 0

(* Vec indexing self.stat[col]: col is 0-based; out of bounds panics *)
IndexFaults(stat, col) == col >= Len(stat)
At(stat, col) == stat[col + 1]

(* Process::read_stat: rd is the result of fs::read_to_string, split into *)
(* tokens: Some(tokens) or None for a read error.                         *)
ReadStat(p, rd) == IF IsSome(rd) THEN [p EXCEPT !.stat = Unwrap(rd)] ELSE p

(* The guard of Process::refresh *)
StatLongEnoughNoGuard(stat) == TRUE
StatLongEnoughOverFull(stat) == Len(stat) > RT_PRIO_COL + 1
StatLongEnough(stat) == Len(stat) > StatGuard

(* Whether a field is to be resolved: the is_none() tests of Process::refresh *)
Needs(field) == IsNone(field)

ProcessRefreshAborting(p0, rd) ==
    LET p == ReadStat(p0, rd)
        st == p.stat
        on == StatLongEnough(st)
        fault == on /\ IndexFaults(st, RT_PRIO_COL)
        okPrio == on /\ ~fault /\ IsSome(ParseI16(At(st, PRIO_COL)))
        okRt == okPrio /\ IsSome(ParseU16(At(st, RT_PRIO_COL)))
        okNice == okRt /\ IsSome(ParseI16(At(st, NICE_COL)))
    IN  IF fault THEN [fault |-> "index", proc |-> p]
        ELSE [fault |-> "none",
              proc |-> [p EXCEPT
                  !.priority = IF okPrio THEN ParseI16(At(st, PRIO_COL)) ELSE @,
                  !.rt_priority = IF okRt THEN ParseU16(At(st, RT_PRIO_COL)) ELSE @,
                  !.nice = IF okNice THEN ParseI16(At(st, NICE_COL)) ELSE @]]

(* Process::refresh: [fault |-> "none", or "index" when the call panics on *)
(* an index out of bounds, proc |-> the record after the call]             *)
ProcessRefresh(p0, rd) ==
    LET p == ReadStat(p0, rd)
        st == p.stat
        on == StatLongEnough(st)
        doPrio == on /\ Needs(p.priority)
        doRt == on /\ Needs(p.rt_priority)
        doNice == on /\ Needs(p.nice)
        fault == \/ doPrio /\ IndexFaults(st, PRIO_COL)
                 \/ doRt /\ IndexFaults(st, RT_PRIO_COL)
                 \/ doNice /\ IndexFaults(st, NICE_COL)
    IN  IF fault THEN [fault |-> "index", proc |-> p]
        ELSE [fault |-> "none",
              proc |-> [p EXCEPT
                  !.priority = IF doPrio THEN Some(UnwrapOr0(ParseI16(At(st, PRIO_COL)))) ELSE @,
                  !.rt_priority = IF doRt THEN Some(UnwrapOr0(ParseU16(At(st, RT_PRIO_COL)))) ELSE @,
                  !.nice = IF doNice THEN Some(UnwrapOr0(ParseI16(At(st, NICE_COL)))) ELSE @]]

(* ProcessBuilder::new and the setters *)
BuilderNew == [name |-> None, pid |-> None, status |-> None, run_time |-> None, ram |-> None]
BuilderName(b, name) == [b EXCEPT !.name = Some(name)]
BuilderPid(b, pid) == [b EXCEPT !.pid = Some(pid)]
BuilderRunTime(b, run_time) == [b EXCEPT !.run_time = Some(run_time)]
BuilderRamInKiB(b, ram) == [b EXCEPT !.ram = Some(ram \div 1024)]
BuilderRam(b, ram) == [b EXCEPT !.ram = Some(ram)]
BuilderStatus(b, status) == [b EXCEPT !.status = Some(status)]

(* ProcessBuilder::build: the unwrap() of an unset required field panics *)
BuildFaultsStatusRequired(b) ==
    IsNone(b.name) \/ IsNone(b.pid) \/ IsNone(b.run_time) \/ IsNone(b.ram) \/ IsNone(b.status)
BuildFaults(b) == IsNone(b.name) \/ IsNone(b.pid) \/ IsNone(b.run_time) \/ IsNone(b.ram)
Build(b) ==
    [name |-> Unwrap(b.name), pid |-> Unwrap(b.pid), run_time |-> Unwrap(b.run_time),
     nice |-> None, status |-> b.status, priority |-> None, rt_priority |-> None,
     ram |-> Unwrap(b.ram), stat |-> << >>]

(* Provider entries: [name, run_time, ram, status]; name is an OsStr:      *)
(* [utf8 |-> TRUE, text |-> chars] or [utf8 |-> FALSE, text |-> << >>].    *)
Utf8(text) == [utf8 |-> TRUE, text |-> text]
NonUtf8 == [utf8 |-> FALSE, text |-> << >>]

(* The match on process.status() in refresh_processes *)
IsTerminalDeadOnly(status) == status = "Dead"
IsTerminal(status) == status \in {"Dead", "Zombie"}

(* live_pids of refresh_processes: the pids of self.sys after refresh_all; *)
(* oldSys is self.sys before refresh_all, newSys after it.                 *)
LivePidsStale(oldSys, newSys) == DOMAIN oldSys
LivePids(oldSys, newSys) == DOMAIN newSys

(* HashMap::retain(|pid, _| live_pids.contains(pid)) *)
Retain(tbl, live) == [p \in (DOMAIN tbl) \cap live |-> tbl[p]]

(* HashMap::remove and HashMap::insert *)
MapRemove(tbl, pid) == [p \in (DOMAIN tbl) \ {pid} |-> tbl[p]]
MapInsert(tbl, pid, v) == [p \in (DOMAIN tbl) \cup {pid} |-> IF p = pid THEN v ELSE tbl[p]]

(* One iteration of the for loop of refresh_processes, for pid with provider *)
(* entry e and read result rd: [fault, tbl]; fault is "none", "unwrap" (an   *)
(* unwrap() of None) or "index".                                             *)
RefreshOne(tbl, pid, e, rd) ==
    IF IsTerminal(e.status) THEN [fault |-> "none", tbl |-> MapRemove(tbl, pid)]
    ELSE IF ~e.name.utf8 THEN [fault |-> "unwrap", tbl |-> tbl]
    ELSE LET b == BuilderRam(BuilderStatus(BuilderRunTime(BuilderPid(
                      BuilderName(BuilderNew, e.name.text), pid), e.run_time), e.status), e.ram)
         IN  IF BuildFaults(b) THEN [fault |-> "unwrap", tbl |-> tbl]
             ELSE LET r == ProcessRefresh(Build(b), rd)
                  IN  IF r.fault /= "none" THEN [fault |-> r.fault, tbl |-> tbl]
                      ELSE [fault |-> "none", tbl |-> MapInsert(tbl, pid, r.proc)]

(* The for loop of refresh_processes over self.sys.processes() *)
RECURSIVE RefreshLoop(_, _, _, _)
RefreshLoop(tbl, todo, newSys, fs) ==
    IF todo = {} THEN [fault |-> "none", tbl |-> tbl]
    ELSE LET pid == CHOOSE p \in todo : TRUE
             one == RefreshOne(tbl, pid, newSys[pid], fs[pid])
         IN  IF one.fault /= "none" THEN one
             ELSE RefreshLoop(one.tbl, todo \ {pid}, newSys, fs)

(* SysProbe::refresh_processes: [fault, tbl] *)
RefreshProcesses(tbl, oldSys, newSys, fs) ==
    RefreshLoop(Retain(tbl, LivePids(oldSys, newSys)), DOMAIN newSys, newSys, fs)

(* SysProbe::set_quantum: the file's content is None (unreadable) or Some(token) *)
(* str::parse::<u32> (every integer token of the model is below 2^31) *)
ParseU32(tok) == IF tok \in IntTexts /\ IntValue(tok) >= 0 THEN Some(IntValue(tok)) ELSE None
SetQuantumFaultsUnreadableOnly(file) == IsNone(file)
SetQuantumFaults(file) == IsNone(file) \/ IsNone(ParseU32(Unwrap(file)))
(* The value stored when neither unwrap panics (0 otherwise: nothing is stored) *)
SetQuantumValue(file) ==
    LET parsed == IF IsSome(file) THEN ParseU32(Unwrap(file)) ELSE None
    IN  IF IsSome(parsed) THEN Unwrap(parsed) ELSE 0

QuantumFiles == {None, Some("x"), Some("100")}

----------------------------------------------------------------------------
(* crates/ets/src/main.rs *)

(* tick_rate = Duration::from_secs(1) *)
TickRate == 1

(* Elapsed time is counted in seconds and saturates at the tick rate: the *)
(* loop only compares it with tick_rate.                                  *)
ElapsedCap == TickRate
Min(a, b) == IF a <= b THEN a ELSE b

(* usize::saturating_sub *)
SaturatingSub(a, b) == IF a >= b THEN a - b ELSE 0

(* char::to_lowercase on the ASCII letters; other characters are unchanged *)
UpperChars == <<"A", "B", "C", "D", "E", "F", "G", "H", "I", "J", "K", "L", "M",
                "N", "O", "P", "Q", "R", "S", "T", "U", "V", "W", "X", "Y", "Z">>
LowerChars == <<"a", "b", "c", "d", "e", "f", "g", "h", "i", "j", "k", "l", "m",
                "n", "o", "p", "q", "r", "s", "t", "u", "v", "w", "x", "y", "z">>
LowerChar(c) ==
    IF \E i \in 1 .. 26 : UpperChars[i] = c
    THEN LowerChars[CHOOSE i \in 1 .. 26 : UpperChars[i] = c]
    ELSE c

(* str::to_lowercase *)
ToLowercase(text) == [i \in 1 .. Len(text) |-> LowerChar(text[i])]

(* u32::to_string: the decimal digits, most significant first *)
DigitChars == <<"0", "1", "2", "3", "4", "5", "6", "7", "8", "9">>
RECURSIVE PidToString(_)
PidToString(pid) ==
    IF pid < 10 THEN <<DigitChars[pid + 1]>>
    ELSE Append(PidToString(pid \div 10), DigitChars[(pid % 10) + 1])

(* str::contains(&str): needle occurs in hay as a contiguous run *)
Contains(hay, needle) ==
    \E k \in 0 .. (Len(hay) - Len(needle)) :
        \A j \in 1 .. Len(needle) : hay[k + j] = needle[j]

(* The closure of the filter of App::apply_filter; text is the lowercased *)
(* filter                                                                 *)
FilterKeeps(p, text) ==
    Contains(ToLowercase(p.name), text) \/ Contains(PidToString(p.pid), text)

(* App::apply_filter: the new self.filtered *)
ApplyFilterEmptyClears(its, flt) ==
    IF flt = << >> THEN << >>
    ELSE LET text == ToLowercase(flt)
             Keep(p) == FilterKeeps(p, text)
         IN  SelectSeq(its, Keep)
ApplyFilterRawText(its, flt) ==
    IF flt = << >> THEN its
    ELSE LET Keep(p) == FilterKeeps(p, flt)
         IN  SelectSeq(its, Keep)
ApplyFilter(its, flt) ==
    IF flt = << >> THEN its
    ELSE LET text == ToLowercase(flt)
             Keep(p) == FilterKeeps(p, text)
         IN  SelectSeq(its, Keep)

(* Vec::sort_by_key(|p| p.run_time): a stable sort, by insertion *)
RECURSIVE InsertByRunTime(_, _)
InsertByRunTime(sorted, p) ==
    IF sorted = << >> THEN <<p>>
    ELSE IF sorted[Len(sorted)].run_time <= p.run_time THEN Append(sorted, p)
    ELSE Append(InsertByRunTime(SubSeq(sorted, 1, Len(sorted) - 1), p), sorted[Len(sorted)])

RECURSIVE SortByRunTime(_)
SortByRunTime(seq) ==
    IF seq = << >> THEN << >>
    ELSE InsertByRunTime(SortByRunTime(SubSeq(seq, 1, Len(seq) - 1)), seq[Len(seq)])

(* self.sys.processes.values().cloned().collect(): the records in any of the *)
(* iteration orders of the HashMap                                           *)
ValueOrders(tbl) ==
    LET n == Cardinality(DOMAIN tbl)
        orders == {o \in [1 .. n -> DOMAIN tbl] : \A i, j \in 1 .. n : i /= j => o[i] /= o[j]}
    IN  {[i \in 1 .. n |-> tbl[o[i]]] : o \in orders}

(* App::next_row: the new selection; n is self.items.len() *)
NextRow(sel, n) ==
    IF IsSome(sel)
    THEN (IF Unwrap(sel) >= SaturatingSub(n, 1) THEN Some(0) ELSE Some(Unwrap(sel) + 1))
    ELSE Some(0)

(* App::previous_row *)
PreviousRow(sel, n) ==
    IF IsSome(sel)
    THEN (IF Unwrap(sel) = 0 THEN Some(SaturatingSub(n, 1)) ELSE Some(Unwrap(sel) - 1))
    ELSE Some(0)

(* String::push and String::pop *)
Push(text, c) == Append(text, c)
PopFirst(text) == IF text = << >> THEN text ELSE Tail(text)
Pop(text) == IF text = << >> THEN text ELSE SubSeq(text, 1, Len(text) - 1)

(* timeout = tick_rate.checked_sub(last_tick.elapsed()).unwrap_or(0) *)
Timeout(el) == IF TickRate >= el THEN TickRate - el ELSE 0

(* Events of crossterm::event::read: a key event with its kind and code, or *)
(* another event (a resize); NoEvent stands for a poll that timed out.      *)
Code(k, c) == [k |-> k, c |-> c]
KeyEvent(kind, code) == [type |-> "key", kind |-> kind, code |-> code]
NoEvent == [type |-> "none", kind |-> "", code |-> Code("", "")]
ResizeEvent == [type |-> "resize", kind |-> "", code |-> Code("", "")]

KeyChars == {"1", "2", "B", "q"}
KeyCodes == {Code("Char", c) : c \in KeyChars}
            \cup {Code("Down", ""), Code("Up", ""), Code("Backspace", ""), Code("Enter", "")}
Events == {KeyEvent("Press", code) : code \in KeyCodes}
          \cup {KeyEvent("Release", Code("Down", "")), ResizeEvent}

----------------------------------------------------------------------------
(* The environment observed by the library *)

RunTimes == 0 .. MaxRunTime
Ram == 4 * 1024

(* Accounting text of n tokens with the given tokens at the three columns *)
MkStat(n, prio, nice, rt) ==
    [i \in 1 .. n |-> IF i = PRIO_COL + 1 THEN prio
                      ELSE IF i = NICE_COL + 1 THEN nice
                      ELSE IF i = RT_PRIO_COL + 1 THEN rt
                      ELSE "0"]

ShortLens == {0, 14, 15, 16, 17, 18, 19, 39}
GoodStat == MkStat(52, "20", "0", "0")
StatTexts == {MkStat(n, "20", "0", "0") : n \in ShortLens}
             \cup { GoodStat,
                    MkStat(52, "-51", "-20", "50"),
                    MkStat(40, "x", "5", "70000"),
                    MkStat(40, "40000", "x", "x") }

(* Results of reading /proc/<pid>/stat *)
StatReads == {None} \cup {Some(s) : s \in StatTexts}

(* What the provider and /proc can report for one pid: absent (<< >>), or *)
(* <<entry, read>>.  The read of a pid that refresh_processes never reads *)
(* (a Dead or Zombie one) is left None.                                   *)
Entry(name, run_time, status) ==
    [name |-> name, run_time |-> run_time, ram |-> Ram, status |-> status]

ShName == Utf8(<<"s", "h">>)

RichReports ==
    {None}
    \cup {Some(<<Entry(ShName, 0, st), None>>) : st \in {"Zombie", "Dead"}}
    \cup {Some(<<Entry(NonUtf8, 0, "Run"), None>>)}
    \cup {Some(<<Entry(ShName, 0, "Run"), rd>>) : rd \in StatReads}

PlainReports ==
    {None}
    \cup {Some(<<Entry(ShName, 0, st), None>>) : st \in {"Zombie", "Sleep"}}
    \cup {Some(<<Entry(ShName, rt, "Run"), Some(GoodStat)>>) : rt \in RunTimes}

BareReports == {None, Some(<<Entry(ShName, 0, "Idle"), None>>)}

ProbePids == {1, 2, 3}
ProbeReports(pid) == IF pid = 1 THEN RichReports
                     ELSE IF pid = 2 THEN PlainReports ELSE BareReports

(* A provider observation: one report per pid *)
SnapSys(rep) == [p \in {q \in DOMAIN rep : IsSome(rep[q])} |-> Unwrap(rep[p])[1]]
SnapFs(rep) == [p \in {q \in DOMAIN rep : IsSome(rep[q])} |-> Unwrap(rep[p])[2]]

(* The observations of a caller's refresh: one report per pid of ProbePids *)
ProbeObservation(r1, r2, r3) == <<r1, r2, r3>>

----------------------------------------------------------------------------
(* The library driven through its public API: SysProbe::new(), then init() *)
(* and refresh_processes() in any order, as in tests::process.             *)

PanicPc(fault) == IF fault = "index" THEN "panic_index" ELSE "panic_unwrap"

(* History of the caller's refreshes: "none" before the first call, "same" *)
(* after a call that returned and observed what the call before observed.  *)
TrackRepeated ==
    repeated' = IF pc' \in {"panic_index", "panic_unwrap"} THEN "new"
                ELSE IF repeated /= "none" /\ sys' = sys /\ procfs' = procfs THEN "same"
                ELSE "new"

AppIdle ==
    UNCHANGED <<termMode, result, items, filtered, filter, selected, exit, elapsed, event,
                lastTick>>

(* The scheduler's configuration file does not change while the program   *)
(* runs, and neither the library's refreshes nor the binary use a builder *)
(* of their own state.                                                    *)
Bystanders == UNCHANGED <<quantumFile, builder, built>>

(* The effect of one refresh_processes call that observes rep; okPc is the *)
(* position after a call that returns.  A panic unwinds through the owner  *)
(* of the SysProbe, which drops the table.                                 *)
DoRefresh(rep, okPc) ==
    LET newSys == SnapSys(rep)
        fs == SnapFs(rep)
        r == RefreshProcesses(processes, sys, newSys, fs)
    IN  /\ sys' = newSys
        /\ procfs' = fs
        /\ processes' = IF r.fault = "none" THEN r.tbl ELSE EmptyMap
        /\ pc' = IF r.fault = "none" THEN okPc ELSE PanicPc(r.fault)

(* SysProbe::init *)
ProbeInit ==
    /\ pc = "lib_new"
    /\ IF SetQuantumFaults(quantumFile)
       THEN /\ pc' = "panic_unwrap"
            /\ UNCHANGED <<quantum, sys, procfs, processes, repeated>>
       ELSE /\ quantum' = SetQuantumValue(quantumFile)
            /\ \E r1 \in ProbeReports(1), r2 \in ProbeReports(2), r3 \in ProbeReports(3) :
                  DoRefresh(ProbeObservation(r1, r2, r3), "lib")
            /\ TrackRepeated
    /\ AppIdle
    /\ Bystanders

(* SysProbe::refresh_processes *)
ProbeRefresh ==
    /\ pc \in {"lib_new", "lib"}
    /\ \E r1 \in ProbeReports(1), r2 \in ProbeReports(2), r3 \in ProbeReports(3) :
          DoRefresh(ProbeObservation(r1, r2, r3), pc)
    /\ TrackRepeated
    /\ UNCHANGED quantum
    /\ AppIdle
    /\ Bystanders

InitProbe ==
    /\ pc = "lib_new"
    /\ termMode = "cooked"
    /\ result = "none"
    /\ quantum = 0
    /\ sys = EmptyMap
    /\ procfs = EmptyMap
    /\ processes = EmptyMap
    /\ items = << >>
    /\ filtered = << >>
    /\ filter = << >>
    /\ selected = None
    /\ exit = FALSE
    /\ elapsed = 0
    /\ event = NoEvent
    /\ repeated = "none"
    /\ quantumFile \in QuantumFiles
    /\ lastTick = "none"
    /\ builder = BuilderNew
    /\ built = None

NextProbe == ProbeInit \/ ProbeRefresh

SpecProbe == InitProbe /\ [][NextProbe]_vars

----------------------------------------------------------------------------
(* The ets binary: main(), App::new() and App::run() *)

AppPids == {7, 123}
BashName == Utf8(<<"B", "a", "s", "h">>)
SshdName == Utf8(<<"s", "s", "h", "d">>)
FaultyStat == MkStat(16, "20", "0", "0")

(* What the provider and /proc report to the binary for pid 7 and pid 123 *)
Reports7 ==
    {None, Some(<<Entry(BashName, 0, "Run"), Some(FaultyStat)>>)}
    \cup {Some(<<Entry(BashName, rt, "Run"), Some(GoodStat)>>) : rt \in RunTimes}
Reports123 ==
    {None, Some(<<Entry(NonUtf8, 0, "Sleep"), None>>)}
    \cup {Some(<<Entry(SshdName, rt, "Sleep"), Some(GoodStat)>>) : rt \in RunTimes}

AppObservation(r7, r123) == [p \in AppPids |-> IF p = 7 THEN r7 ELSE r123]

ProbeIdle == UNCHANGED <<quantum, sys, procfs, processes, repeated>>

(* A panic unwinds through main and drops the App *)
AppDropped ==
    /\ items' = << >>
    /\ filtered' = << >>
    /\ filter' = << >>
    /\ selected' = None
    /\ exit' = FALSE
    /\ elapsed' = 0
    /\ event' = NoEvent

(* main: ratatui::init() also installs a panic hook, which restores the *)
(* terminal before the panic is reported.                               *)
PanicHook(mode) == "cooked"
TermAfter(mode, nextPc) ==
    IF nextPc \in {"panic_index", "panic_unwrap"} THEN PanicHook(mode) ELSE mode

UpdateProcessesStale(okPc) ==
    /\ \E r7 \in Reports7, r123 \in Reports123 : DoRefresh(AppObservation(r7, r123), okPc)
    /\ UNCHANGED <<quantum, repeated>>
    /\ IF pc' = okPc
       THEN /\ \E vals \in ValueOrders(processes') : items' = SortByRunTime(vals)
            /\ UNCHANGED <<filtered, filter, selected, exit>>
            /\ elapsed' = 0
            /\ event' = NoEvent
       ELSE AppDropped

(* App::update_processes *)
UpdateProcesses(okPc) ==
    /\ \E r7 \in Reports7, r123 \in Reports123 : DoRefresh(AppObservation(r7, r123), okPc)
    /\ UNCHANGED <<quantum, repeated>>
    /\ IF pc' = okPc
       THEN /\ \E vals \in ValueOrders(processes') : items' = SortByRunTime(vals)
            /\ filtered' = ApplyFilter(items', filter)
            /\ UNCHANGED <<filter, selected, exit>>
            /\ elapsed' = 0
            /\ event' = NoEvent
       ELSE AppDropped

(* main: ratatui::init() *)
TerminalInit ==
    /\ pc = "main"
    /\ termMode' = "raw"
    /\ pc' = "new"
    /\ ProbeIdle
    /\ Bystanders
    /\ UNCHANGED <<result, items, filtered, filter, selected, exit, elapsed, event, lastTick>>

(* App::new: app.sys.init(), its set_quantum *)
AppSetQuantum ==
    /\ pc = "new"
    /\ IF SetQuantumFaults(quantumFile)
       THEN pc' = "panic_unwrap" /\ UNCHANGED quantum
       ELSE pc' = "init_refresh" /\ quantum' = SetQuantumValue(quantumFile)
    /\ termMode' = TermAfter(termMode, pc')
    /\ UNCHANGED <<sys, procfs, processes, repeated>>
    /\ Bystanders
    /\ UNCHANGED <<result, items, filtered, filter, selected, exit, elapsed, event, lastTick>>

(* App::new: app.sys.init(), its refresh_processes *)
AppInitRefresh ==
    /\ pc = "init_refresh"
    /\ \E r7 \in Reports7, r123 \in Reports123 :
          DoRefresh(AppObservation(r7, r123), "new_update")
    /\ termMode' = TermAfter(termMode, pc')
    /\ UNCHANGED <<quantum, repeated>>
    /\ Bystanders
    /\ UNCHANGED <<result, items, filtered, filter, selected, exit, elapsed, event, lastTick>>

(* App::new: app.update_processes(); run then starts with last_tick = now *)
AppNewUpdate ==
    /\ pc = "new_update"
    /\ UpdateProcesses("loop")
    /\ termMode' = TermAfter(termMode, pc')
    /\ Bystanders
    /\ UNCHANGED <<result, lastTick>>

(* run: while !self.exit fails: Ok(()) *)
LoopExit ==
    /\ pc = "loop"
    /\ exit
    /\ result' = "ok"
    /\ pc' = "restore"
    /\ ProbeIdle
    /\ Bystanders
    /\ UNCHANGED <<termMode, items, filtered, filter, selected, exit, elapsed, event, lastTick>>

(* run: terminal.draw(...)?, which takes some time; the selection is left *)
(* as the handlers set it.                                                *)
Draw ==
    /\ pc = "loop"
    /\ ~exit
    /\ \/ /\ pc' = "poll"
          /\ \E el \in elapsed .. ElapsedCap : elapsed' = el
          /\ UNCHANGED result
       \/ /\ pc' = "restore"
          /\ result' = "err"
          /\ UNCHANGED elapsed
    /\ lastTick' = "none"
    /\ ProbeIdle
    /\ Bystanders
    /\ UNCHANGED <<termMode, items, filtered, filter, selected, exit, event>>

HandlePressFilterInPlace(code) ==
    IF code = Code("Char", "q")
    THEN exit' = TRUE /\ UNCHANGED <<items, filter, filtered, selected>>
    ELSE IF code.k = "Down"
    THEN selected' = NextRow(selected, Len(items)) /\ UNCHANGED <<items, filter, filtered, exit>>
    ELSE IF code.k = "Up"
    THEN selected' = PreviousRow(selected, Len(items)) /\ UNCHANGED <<items, filter, filtered, exit>>
    ELSE IF code.k = "Char"
    THEN /\ filter' = Push(filter, code.c)
         /\ items' = ApplyFilter(items, filter')
         /\ filtered' = items'
         /\ UNCHANGED <<selected, exit>>
    ELSE IF code.k = "Backspace"
    THEN /\ filter' = Pop(filter)
         /\ items' = ApplyFilter(items, filter')
         /\ filtered' = items'
         /\ UNCHANGED <<selected, exit>>
    ELSE UNCHANGED <<items, filter, filtered, selected, exit>>

(* The match on key.code of run, for a key press *)
HandlePress(code) ==
    IF code = Code("Char", "q")
    THEN exit' = TRUE /\ UNCHANGED <<items, filter, filtered, selected>>
    ELSE IF code.k = "Down"
    THEN selected' = NextRow(selected, Len(items)) /\ UNCHANGED <<items, filter, filtered, exit>>
    ELSE IF code.k = "Up"
    THEN selected' = PreviousRow(selected, Len(items)) /\ UNCHANGED <<items, filter, filtered, exit>>
    ELSE IF code.k = "Char"
    THEN /\ filter' = Push(filter, code.c)
         /\ filtered' = ApplyFilter(items, filter')
         /\ UNCHANGED <<items, selected, exit>>
    ELSE IF code.k = "Backspace"
    THEN /\ filter' = Pop(filter)
         /\ filtered' = ApplyFilter(items, filter')
         /\ UNCHANGED <<items, selected, exit>>
    ELSE UNCHANGED <<items, filter, filtered, selected, exit>>

(* An event the model lets arrive: the filter text is capped at MaxFilterLen *)
Offered(ev) ==
    (ev.type = "key" /\ ev.kind = "Press" /\ ev.code.k = "Char" /\ ev.code.c /= "q")
        => Len(filter) < MaxFilterLen

(* run: poll(timeout)?, and event::read()? with the handling of the event *)
Poll ==
    /\ pc = "poll"
    /\ \/ /\ pc' = "restore"
          /\ result' = "err"
          /\ UNCHANGED <<items, filter, filtered, selected, exit, elapsed, event>>
       \/ /\ pc' = "tick"
          /\ elapsed' = Min(elapsed + Timeout(elapsed), ElapsedCap)
          /\ event' = NoEvent
          /\ UNCHANGED <<result, items, filter, filtered, selected, exit>>
       \/ /\ pc' = "tick"
          /\ \E wait \in 0 .. Timeout(elapsed) : elapsed' = Min(elapsed + wait, ElapsedCap)
          /\ \E ev \in Events :
                /\ Offered(ev)
                /\ event' = ev
                /\ IF ev.type = "key" /\ ev.kind = "Press"
                   THEN HandlePress(ev.code)
                   ELSE UNCHANGED <<items, filter, filtered, selected, exit>>
          /\ UNCHANGED result
    /\ ProbeIdle
    /\ Bystanders
    /\ UNCHANGED <<termMode, lastTick>>

(* run: if last_tick.elapsed() >= tick_rate { update_processes(); last_tick = now } *)
TickDueStrict(el) == el > TickRate
TickDue(el) == el >= TickRate
Tick ==
    /\ pc = "tick"
    /\ IF TickDue(elapsed)
       THEN /\ UpdateProcesses("loop")
            /\ lastTick' = IF pc' = "loop" THEN "refreshed" ELSE "none"
       ELSE /\ pc' = "loop"
            /\ event' = NoEvent
            /\ lastTick' = "skipped"
            /\ ProbeIdle
            /\ UNCHANGED <<items, filtered, filter, selected, exit, elapsed>>
    /\ termMode' = TermAfter(termMode, pc')
    /\ Bystanders
    /\ UNCHANGED result

RestoreOnSuccessOnly ==
    /\ pc = "restore"
    /\ termMode' = IF result = "ok" THEN "cooked" ELSE termMode
    /\ pc' = "done"
    /\ ProbeIdle
    /\ Bystanders
    /\ UNCHANGED <<result, items, filtered, filter, selected, exit, elapsed, event, lastTick>>

(* main: ratatui::restore(), then the result of run is returned *)
Restore ==
    /\ pc = "restore"
    /\ termMode' = "cooked"
    /\ pc' = "done"
    /\ ProbeIdle
    /\ Bystanders
    /\ UNCHANGED <<result, items, filtered, filter, selected, exit, elapsed, event, lastTick>>

Init ==
    /\ pc = "main"
    /\ termMode = "cooked"
    /\ result = "none"
    /\ quantum = 0
    /\ sys = EmptyMap
    /\ procfs = EmptyMap
    /\ processes = EmptyMap
    /\ items = << >>
    /\ filtered = << >>
    /\ filter = << >>
    /\ selected = None
    /\ exit = FALSE
    /\ elapsed = 0
    /\ event = NoEvent
    /\ repeated = "none"
    /\ quantumFile \in QuantumFiles
    /\ lastTick = "none"
    /\ builder = BuilderNew
    /\ built = None

Next ==
    \/ TerminalInit
    \/ AppSetQuantum
    \/ AppInitRefresh
    \/ AppNewUpdate
    \/ LoopExit
    \/ Draw
    \/ Poll
    \/ Tick
    \/ Restore

Spec == Init /\ [][Next]_vars

----------------------------------------------------------------------------
(* A ProcessBuilder driven by a caller, as in tests::process_builder: *)
(* Process::builder(), setters in any order, each any number of times, *)
(* then build().                                                       *)

TestName == <<"t", "e", "s", "t">>
BuilderNames == {TestName, BashName.text}
BuilderPids == {1, 7}
BuilderRams == {0, Ram}
BuilderStatuses == {"Run", "Sleep"}

BuilderFrame ==
    /\ AppIdle
    /\ ProbeIdle
    /\ UNCHANGED quantumFile

SetName ==
    /\ pc = "builder"
    /\ \E name \in BuilderNames : builder' = BuilderName(builder, name)
    /\ UNCHANGED <<pc, built>>
    /\ BuilderFrame

SetPid ==
    /\ pc = "builder"
    /\ \E pid \in BuilderPids : builder' = BuilderPid(builder, pid)
    /\ UNCHANGED <<pc, built>>
    /\ BuilderFrame

SetRunTime ==
    /\ pc = "builder"
    /\ \E run_time \in RunTimes : builder' = BuilderRunTime(builder, run_time)
    /\ UNCHANGED <<pc, built>>
    /\ BuilderFrame

SetRam ==
    /\ pc = "builder"
    /\ \E ram \in BuilderRams : builder' = BuilderRam(builder, ram)
    /\ UNCHANGED <<pc, built>>
    /\ BuilderFrame

SetStatus ==
    /\ pc = "builder"
    /\ \E status \in BuilderStatuses : builder' = BuilderStatus(builder, status)
    /\ UNCHANGED <<pc, built>>
    /\ BuilderFrame

(* ProcessBuilder::build *)
CallBuild ==
    /\ pc = "builder"
    /\ IF BuildFaults(builder)
       THEN pc' = "panic_unwrap" /\ UNCHANGED built
       ELSE pc' = "built" /\ built' = Some(Build(builder))
    /\ UNCHANGED builder
    /\ BuilderFrame

InitBuilder ==
    /\ pc = "builder"
    /\ termMode = "cooked"
    /\ result = "none"
    /\ quantum = 0
    /\ sys = EmptyMap
    /\ procfs = EmptyMap
    /\ processes = EmptyMap
    /\ items = << >>
    /\ filtered = << >>
    /\ filter = << >>
    /\ selected = None
    /\ exit = FALSE
    /\ elapsed = 0
    /\ event = NoEvent
    /\ repeated = "none"
    /\ quantumFile = Some("100")
    /\ lastTick = "none"
    /\ builder = BuilderNew
    /\ built = None

NextBuilder == SetName \/ SetPid \/ SetRunTime \/ SetRam \/ SetStatus \/ CallBuild

SpecBuilder == InitBuilder /\ [][NextBuilder]_vars

----------------------------------------------------------------------------
(* Properties of the library, checked under SpecProbe *)

Panicked == pc \in {"panic_index", "panic_unwrap"}

(* The pids the provider reported in the last refresh with a status other *)
(* than Dead or Zombie                                                    *)
ReportedAlive == {p \in DOMAIN sys : sys[p].status /= "Dead" /\ sys[p].status /= "Zombie"}

(* C1: after every refresh_processes call that returns, the key set of the *)
(* table is the set of pids the provider reported in that call minus the   *)
(* pids it reported Dead or Zombie.                                        *)
KeySetIsLiveSet == ~Panicked => DOMAIN processes = ReportedAlive

(* C1 witness: the provider reported {1,2,3} with 2 a Zombie, and the table *)
(* holds exactly {1,3}.                                                     *)
KeySetWitness ==
    /\ pc = "lib"
    /\ DOMAIN sys = {1, 2, 3}
    /\ sys[2].status = "Zombie"
    /\ DOMAIN processes = {1, 3}

(* C2: a resolved nice, priority or rt_priority of a pid that stays in the *)
(* table is never changed or made unresolved by a later refresh.           *)
StickyFields ==
    [][\A p \in (DOMAIN processes) \cap (DOMAIN processes') :
          /\ IsSome(processes[p].nice) => processes'[p].nice = processes[p].nice
          /\ IsSome(processes[p].priority) => processes'[p].priority = processes[p].priority
          /\ IsSome(processes[p].rt_priority) =>
                 processes'[p].rt_priority = processes[p].rt_priority]_vars

(* C4: no accounting text, of any token count, makes a refresh read a token *)
(* index at or past the number of tokens.                                   *)
NoIndexFault == pc /= "panic_index"

(* The pids whose accounting text the last refresh had to read, and those *)
(* among them whose text was unreadable or shorter than 15 tokens         *)
ShortRead(rd) == IsNone(rd) \/ Len(Unwrap(rd)) < 15
ShortPids == {p \in ReportedAlive : ShortRead(procfs[p])}

(* C5: a pid whose accounting text is unreadable or has fewer than 15     *)
(* tokens gets a record with nice, priority and rt_priority unresolved,   *)
(* and such text never is what makes the refresh fault: an index fault    *)
(* needs a pid with text of 15 tokens or more.                            *)
ShortTextUnresolved ==
    /\ ~Panicked =>
          \A p \in ShortPids :
              /\ p \in DOMAIN processes
              /\ IsNone(processes[p].nice)
              /\ IsNone(processes[p].priority)
              /\ IsNone(processes[p].rt_priority)
    /\ pc = "panic_index" => ReportedAlive \ ShortPids /= {}

(* C5 witness: pid 1 was read with 14 tokens and pid 3 could not be read; *)
(* both are in the table, unresolved.                                     *)
ShortTextWitness ==
    /\ pc = "lib"
    /\ {1, 3} \subseteq DOMAIN processes
    /\ IsSome(procfs[1]) /\ Len(Unwrap(procfs[1])) = 14
    /\ IsNone(procfs[3])
    /\ IsNone(processes[1].nice) /\ IsNone(processes[3].priority)

(* C8: a refresh_processes call that observes the same provider data as the *)
(* call before it leaves the pid-to-record mapping as that call left it.    *)
RefreshIdempotent == [][repeated' = "same" => processes' = processes]_vars

(* C8 witness: a second refresh against unchanged data, with a record whose *)
(* scheduling fields are resolved.                                          *)
RefreshIdempotentWitness ==
    /\ repeated = "same"
    /\ \E p \in DOMAIN processes : IsSome(processes[p].nice) /\ processes[p].nice /= Some(0)

----------------------------------------------------------------------------
(* Properties of the binary, checked under Spec *)

PressOf(code) == KeyEvent("Press", code)

(* The step of a loop iteration that handled the key press of code *)
Handled(code) == pc = "poll" /\ pc' = "tick" /\ event' = PressOf(code)

(* C3: with N >= 1 displayed rows, Down at index N-1 selects 0 and Up at *)
(* index 0 selects N-1, for every filter text.                           *)
SelectionWraps ==
    [][/\ (Handled(Code("Down", "")) /\ Len(filtered) >= 1
            /\ selected = Some(Len(filtered) - 1)) => selected' = Some(0)
       /\ (Handled(Code("Up", "")) /\ Len(filtered) >= 1
            /\ selected = Some(0)) => selected' = Some(Len(filtered) - 1)]_vars

(* The filter predicate as the specification words it *)
SameIgnoringCase(a, b) ==
    a = b \/ \E i \in 1 .. 26 : {a, b} = {UpperChars[i], LowerChars[i]}

NameShows(name, flt) ==
    \E k \in 0 .. (Len(name) - Len(flt)) :
        \A j \in 1 .. Len(flt) : SameIgnoringCase(name[k + j], flt[j])

RECURSIVE Pow10(_)
Pow10(n) == IF n = 0 THEN 1 ELSE 10 * Pow10(n - 1)

NumDigits(pid) == IF pid = 0 THEN 1 ELSE CHOOSE n \in 1 .. 9 : Pow10(n - 1) <= pid /\ pid < Pow10(n)
IsDigit(c) == \E d \in 0 .. 9 : DigitChars[d + 1] = c
DigitValue(c) == CHOOSE d \in 0 .. 9 : DigitChars[d + 1] = c

PidShows(pid, flt) ==
    /\ \A j \in 1 .. Len(flt) : IsDigit(flt[j])
    /\ \E k \in 0 .. (NumDigits(pid) - Len(flt)) :
          \A j \in 1 .. Len(flt) :
              (pid \div Pow10(NumDigits(pid) - k - j)) % 10 = DigitValue(flt[j])

Shown(p, flt) == NameShows(p.name, flt) \/ PidShows(p.pid, flt)

(* shown is the records of its that flt keeps, in the order of its *)
IsFilterOf(shown, its, flt) ==
    LET idx == {i \in 1 .. Len(its) : Shown(its[i], flt)}
    IN  /\ Len(shown) = Cardinality(idx)
        /\ \A i \in idx : shown[Cardinality({j \in idx : j <= i})] = its[i]

Ascending(its) == \A i, j \in 1 .. Len(its) : i < j => its[i].run_time <= its[j].run_time

(* C6: for a non-empty filter text the displayed sequence is exactly the *)
(* records of the run_time-ascending snapshot whose name contains the    *)
(* text case-insensitively or whose decimal pid contains it, in the      *)
(* snapshot's order.                                                     *)
FilterShowsMatches ==
    filter /= << >> => Ascending(items) /\ IsFilterOf(filtered, items, filter)

(* C6 witness: the filter "12" over the snapshot of pids 7 and 123 keeps *)
(* pid 123 alone.                                                        *)
FilterShowsMatchesWitness ==
    /\ filter = <<"1", "2">>
    /\ Len(items) = 2
    /\ Len(filtered) = 1
    /\ filtered[1].pid = 123

(* C7: with an empty filter text the displayed sequence is the full sorted *)
(* snapshot, also after a character was appended and removed again.        *)
EmptyFilterShowsAll == filter = << >> => filtered = items /\ Ascending(items)

(* C7 witness: a Backspace press has left the filter empty over a snapshot *)
(* of two records.                                                         *)
EmptyFilterWitness ==
    /\ pc = "tick"
    /\ event = PressOf(Code("Backspace", ""))
    /\ filter = << >>
    /\ Len(items) = 2
    /\ filtered = items

AllButLast(text) == [i \in 1 .. (Len(text) - 1) |-> text[i]]

BackspaceEdits ==
    Handled(Code("Backspace", "")) =>
        /\ filter' = (IF filter = << >> THEN << >> ELSE AllButLast(filter))
        /\ filter' = << >> => filtered' = items'
        /\ filter' /= << >> => IsFilterOf(filtered', items', filter')

CharEdits(c) ==
    Handled(Code("Char", c)) =>
        /\ filter' = filter \o <<c>>
        /\ IsFilterOf(filtered', items', filter')

(* C9 as stated: a key press of any printable character c appends c to the *)
(* filter text, Backspace removes its last character, and each edit        *)
(* re-derives the displayed sequence.                                      *)
EveryCharEdits == [][BackspaceEdits /\ \A c \in KeyChars : CharEdits(c)]_vars

(* C9 amended: a key press of any printable character c other than 'q'    *)
(* appends c to the filter text, Backspace removes its last character and *)
(* leaves an empty filter empty, and each edit re-derives the displayed   *)
(* sequence; a press of 'q' quits and leaves the filter text as it is.    *)
NonQuitCharEdits ==
    [][/\ BackspaceEdits
       /\ \A c \in KeyChars \ {"q"} : CharEdits(c)
       /\ Handled(Code("Char", "q")) => exit' /\ filter' = filter /\ filtered' = filtered]_vars

(* C9 witness: the press of "2" made the filter "12", and the displayed *)
(* sequence was narrowed to one of two records.                         *)
NonQuitCharWitness ==
    /\ pc = "tick"
    /\ event = PressOf(Code("Char", "2"))
    /\ filter = <<"1", "2">>
    /\ Len(items) = 2
    /\ Len(filtered) = 1

(* C10: once the quit key press is handled no input event is handled and *)
(* no frame is rendered any more, and the loop ends with Ok(()).         *)
QuitIsTerminal ==
    [][exit =>
          /\ ~(pc = "loop" /\ pc' = "poll")
          /\ pc /= "poll"
          /\ pc' \notin {"panic_index", "panic_unwrap"}
          /\ pc' = "restore" => result' = "ok"]_vars

----------------------------------------------------------------------------
(* Properties of startup and shutdown, checked under Spec *)

BadQuantumFile == quantumFile = None \/ quantumFile = Some("x")

(* C11: when /proc/sys/kernel/sched_rr_timeslice_ms cannot be read or does *)
(* not hold an integer, the program never gets past startup: the loop is   *)
(* never entered, no frame is drawn, no input event is handled and run     *)
(* returns no result.                                                      *)
QuantumFailureIsFatal ==
    BadQuantumFile =>
        /\ pc \in {"main", "new", "panic_unwrap"}
        /\ quantum = 0
        /\ result = "none"
        /\ event = NoEvent
        /\ lastTick = "none"
        /\ items = << >>

(* C11 witness: set_quantum read a text that is no integer and panicked *)
QuantumFailureWitness ==
    /\ quantumFile = Some("x")
    /\ pc = "panic_unwrap"
    /\ processes = EmptyMap

Ended == pc \in {"done", "panic_index", "panic_unwrap"}

----------------------------------------------------------------------------
(* Properties of the builder, checked under SpecBuilder *)

RequiredSet(b) == IsSome(b.name) /\ IsSome(b.pid) /\ IsSome(b.run_time) /\ IsSome(b.ram)

(* C13: build() returns only when name, pid, run_time and ram were all set *)
(* (status set or not), and then the record holds exactly those four       *)
(* values, the status as given, and nice, priority and rt_priority         *)
(* unresolved; with any of the four unset build() panics and returns no    *)
(* record.                                                                 *)
BuildContract ==
    /\ pc = "built" =>
          /\ RequiredSet(builder)
          /\ IsSome(built)
          /\ Unwrap(built).name = Unwrap(builder.name)
          /\ Unwrap(built).pid = Unwrap(builder.pid)
          /\ Unwrap(built).run_time = Unwrap(builder.run_time)
          /\ Unwrap(built).ram = Unwrap(builder.ram)
          /\ Unwrap(built).status = builder.status
          /\ IsNone(Unwrap(built).nice)
          /\ IsNone(Unwrap(built).priority)
          /\ IsNone(Unwrap(built).rt_priority)
    /\ pc = "panic_unwrap" => ~RequiredSet(builder) /\ IsNone(built)
    /\ pc = "builder" => IsNone(built)

(* C13 witness: the record of tests::process_builder, built with no status *)
BuildContractWitness ==
    /\ pc = "built"
    /\ IsNone(builder.status)
    /\ IsSome(built)
    /\ Unwrap(built).name = TestName
    /\ Unwrap(built).pid = 1
    /\ Unwrap(built).run_time = 0
    /\ Unwrap(built).ram = 0

----------------------------------------------------------------------------
(* Properties of the event loop, checked under Spec *)

FilterEditHandled ==
    \/ Handled(Code("Backspace", ""))
    \/ \E c \in KeyChars \ {"q"} : Handled(Code("Char", c))

(* C14: handling a character-append or Backspace key press leaves the   *)
(* provider's list, the pid-to-record table and the sorted snapshot as  *)
(* they were; of the App only the filter text and the displayed         *)
(* sequence may change (not the selection, not the exit flag).          *)
FilterEditKeepsData ==
    [][FilterEditHandled =>
          /\ processes' = processes
          /\ sys' = sys
          /\ quantum' = quantum
          /\ items' = items
          /\ selected' = selected
          /\ exit' = exit]_vars

(* C14 witness: the press of "1" narrowed the display to one of the two *)
(* records, and both are still in the table and in the snapshot.        *)
FilterEditWitness ==
    /\ pc = "tick"
    /\ event = PressOf(Code("Char", "1"))
    /\ filter = <<"1">>
    /\ Cardinality(DOMAIN processes) = 2
    /\ Len(items) = 2
    /\ Len(filtered) = 1

(* C15: an iteration of the loop polls once, so it handles at most one   *)
(* input event, and input is handled nowhere else; the iteration's tick  *)
(* test refreshes exactly when a full tick rate has elapsed since the    *)
(* last reset, and a refresh that returns resets that time; a deadline   *)
(* that has elapsed before the poll is still elapsed after it; nothing   *)
(* but the tick test refreshes while the loop runs.                      *)
TickNeverStarved ==
    [][/\ pc = "loop" => pc' \in {"poll", "restore"}
       /\ pc = "poll" => pc' \in {"tick", "restore"}
       /\ (pc = "poll" /\ pc' = "tick" /\ elapsed >= TickRate) => elapsed' >= TickRate
       /\ (pc \in {"loop", "tick"} /\ ~Panicked') =>
             filter' = filter /\ selected' = selected /\ exit' = exit
       /\ pc \in {"loop", "poll"} =>
             sys' = sys /\ processes' = processes /\ items' = items
       /\ (pc = "tick" /\ elapsed >= TickRate) =>
             \/ Panicked'
             \/ /\ pc' = "loop"
                /\ lastTick' = "refreshed"
                /\ elapsed' = 0
                /\ DOMAIN processes' = ReportedAlive'
       /\ (pc = "tick" /\ elapsed < TickRate) =>
             /\ pc' = "loop"
             /\ lastTick' = "skipped"
             /\ elapsed' = elapsed
             /\ sys' = sys /\ processes' = processes /\ items' = items]_vars

(* C15 witness: with a filter typed in, the tick test of the last     *)
(* iteration found the deadline elapsed, refreshed the table of two   *)
(* records and reset the time.                                        *)
TickNeverStarvedWitness ==
    /\ pc = "loop"
    /\ lastTick = "refreshed"
    /\ elapsed = 0
    /\ filter = <<"1">>
    /\ Len(items) = 2

----------------------------------------------------------------------------
(* Properties of the records of the table, checked under SpecProbe *)

(* C16: after every refresh_processes call that returns, every record of  *)
(* the table, kept or new, has the name, run_time, ram and status the     *)
(* provider reported for its pid in that call, and its pid is its key.    *)
RecordsMatchProvider ==
    ~Panicked =>
        \A p \in DOMAIN processes :
            /\ p \in DOMAIN sys
            /\ processes[p].pid = p
            /\ sys[p].name.utf8
            /\ processes[p].name = sys[p].name.text
            /\ processes[p].run_time = sys[p].run_time
            /\ processes[p].ram = sys[p].ram
            /\ processes[p].status = Some(sys[p].status)

(* C16 witness: after a second, different refresh pid 2's record has the *)
(* run_time 1 and the ram of this refresh, next to the record of pid 1.  *)
RecordsMatchWitness ==
    /\ pc = "lib"
    /\ repeated = "new"
    /\ {1, 2} \subseteq DOMAIN processes
    /\ sys[2].run_time = 1
    /\ processes[2].run_time = 1
    /\ processes[2].ram = Ram
    /\ processes[1].name = ShName.text

FullRead(rd) == IsSome(rd) /\ Len(Unwrap(rd)) >= 40
FullPids == {p \in ReportedAlive : FullRead(procfs[p])}
Resolved(p) ==
    /\ IsSome(processes[p].nice)
    /\ IsSome(processes[p].priority)
    /\ IsSome(processes[p].rt_priority)

(* C17: whenever a refresh finds a live, non-terminal pid whose accounting *)
(* text is readable and has at least 40 tokens, the pid's record has nice, *)
(* priority and rt_priority all resolved after that refresh, whatever the  *)
(* refreshes before it found.                                              *)
FullTextResolves ==
    ~Panicked => \A p \in FullPids : p \in DOMAIN processes /\ Resolved(p)

(* C17 witness: a later refresh read 52 tokens for pid 1 and resolved the *)
(* three fields from them.                                                *)
FullTextWitness ==
    /\ pc = "lib"
    /\ repeated = "new"
    /\ 1 \in DOMAIN processes
    /\ procfs[1] = Some(MkStat(52, "-51", "-20", "50"))
    /\ processes[1].priority = Some(-51)
    /\ processes[1].nice = Some(-20)
    /\ processes[1].rt_priority = Some(50)

(* What a token resolves a field of the range lo .. hi to *)
OwnValue(tok, lo, hi) ==
    IF tok \in IntTexts /\ IntValue(tok) >= lo /\ IntValue(tok) <= hi THEN IntValue(tok) ELSE 0

(* C18: with enough tokens, each of priority (token 17), nice (token 18)  *)
(* and rt_priority (token 39) is resolved from its own token: to the      *)
(* token's value when it is an integer of the field's type, to 0 when it  *)
(* is not, whatever the other two tokens are.                             *)
OwnTokenOrZero ==
    ~Panicked =>
        \A p \in FullPids :
            LET st == Unwrap(procfs[p])
            IN  /\ p \in DOMAIN processes
                /\ processes[p].priority = Some(OwnValue(st[18], -32768, 32767))
                /\ processes[p].nice = Some(OwnValue(st[19], -32768, 32767))
                /\ processes[p].rt_priority = Some(OwnValue(st[40], 0, 65535))

(* C18 witness: token 17 is no integer and token 39 is out of range, both *)
(* fields are 0 and nice is the 5 of token 18.                            *)
OwnTokenWitness ==
    /\ pc = "lib"
    /\ 1 \in DOMAIN processes
    /\ procfs[1] = Some(MkStat(40, "x", "5", "70000"))
    /\ processes[1].priority = Some(0)
    /\ processes[1].nice = Some(5)
    /\ processes[1].rt_priority = Some(0)

----------------------------------------------------------------------------
(* Properties of what the loop displays and selects, checked under Spec *)

IsSnapshotOf(its, tbl) ==
    /\ Len(its) = Cardinality(DOMAIN tbl)
    /\ {its[i] : i \in 1 .. Len(its)} = {tbl[p] : p \in DOMAIN tbl}
    /\ Ascending(its)

(* C19: while the loop runs, and so at every render, the snapshot is the *)
(* records of the table of the most recent refresh in ascending run_time *)
(* order, and the displayed sequence is that snapshot for an empty       *)
(* filter text and its records that the current filter text keeps, in    *)
(* the snapshot's order, otherwise.                                      *)
DisplayIsFresh ==
    pc \in {"loop", "poll", "tick"} =>
        /\ IsSnapshotOf(items, processes)
        /\ IF filter = << >> THEN filtered = items ELSE IsFilterOf(filtered, items, filter)

(* C19 witness: about to render after a tick refresh that found two    *)
(* records with different run_time while the filter "1" was typed in:  *)
(* one of them is displayed.                                           *)
DisplayIsFreshWitness ==
    /\ pc = "loop"
    /\ ~exit
    /\ lastTick = "refreshed"
    /\ filter = <<"1">>
    /\ Len(items) = 2
    /\ items[1].run_time < items[2].run_time
    /\ Len(filtered) = 1
    /\ filtered[1].pid = 123

(* C20: whenever a row is selected and the displayed sequence has N >= 1 *)
(* rows, the selected index is below N.                                  *)
SelectionInDisplay ==
    (IsSome(selected) /\ Len(filtered) >= 1) => Unwrap(selected) < Len(filtered)

====
